---- MODULE Spec2Model ----
(***************************************************************************)
(* Model of the sitemap crawler of src/src/index.ts (class Checker).       *)
(*                                                                         *)
(* URLs, hosts, titles and error descriptions are TLA+ strings, so that    *)
(* startsWith, substr, string concatenation and localeCompare are computed *)
(* on the characters as the code computes them.  NodeInfo objects live in  *)
(* a heap (nodes); the Map and the three Sets of the class hold references *)
(* (heap indices), a JavaScript Set being kept in insertion order.         *)
(*                                                                         *)
(* The puppeteer page is the environment: each fetch target has one        *)
(* response (navigation outcome, title, anchors), chosen the first time    *)
(* the crawler asks for it and remembered in site.  DOM queries on a       *)
(* loaded page (page.$$, getProperty, jsonValue) are taken to return.      *)
(***************************************************************************)
EXTENDS Integers, Sequences, FiniteSets, TLC

VARIABLES
  options,             \* the CheckerOptions object handed to Checker.run
  checkHost,           \* Checker.checkHost
  outputHost,          \* Checker.outputHost
  checkExternalLinks,  \* Checker.checkExternalLinks
  sitemapPath,         \* Checker.sitemapPath (Null when not configured)
  blackList,           \* Checker.blackList
  paths,               \* the seed list handed to runInternal
  nodes,               \* heap of NodeInfo objects, a reference is an index
  allNodes,            \* Map<string, NodeInfo>: url -> reference
  finishedOurNodes,    \* Set<NodeInfo>, in insertion order
  errorNodes,          \* Set<NodeInfo>, in insertion order
  targetNodes,         \* Set<NodeInfo>, in insertion order (the frontier)
  browserOpen,         \* the puppeteer browser has not been closed
  closeCount,          \* number of browser.close() calls
  files,               \* file system: path -> sequence of <loc> bodies
  pc,                  \* position of runInternal
  site,                \* fetch target -> what the page answered so far
  visited,             \* history: the nodes handed to checkPage, in order
  twin,                \* second run of the same crawl (SpecDet only)
  lastGoto             \* history: what page.goto did last (SpecObs only)

vars == <<options, checkHost, outputHost, checkExternalLinks, sitemapPath, blackList,
          paths, nodes, allNodes, finishedOurNodes, errorNodes, targetNodes,
          browserOpen, closeCount, files, pc, site, visited, twin, lastGoto>>

-----------------------------------------------------------------------------
(* Bounds and input universes *)

MaxSeeds == 2
MaxLinks == 2

Null == "<null>"
Undefined == "<undefined>"

CheckHosts == {"http://h"}
OutputHosts == {"https://pub"}
SitemapPaths == {"build/sitemap.xml"}
BlackLists == {<<"/a">>}
SeedPaths == {"/", "http://h/a"}
Hrefs == {"http://h/a", "http://e/"}
Statuses == {199, 200, 399, 400}
Titles == {"T"}
NavigationErrors == {"TimeoutError: Navigation timeout of 10000 ms exceeded"}

SeqsUpTo(S, n) == UNION {[1..k -> S] : k \in 0..n}

\* An optional field of an options object: absent, or present with a value
Optional(name, Values) == {<<>>} \cup {name :> v : v \in Values}

\* type CheckerOptions
CheckerOptions ==
  {("checkHost" :> ch) @@ ("paths" :> ps) @@ oh @@ bl @@ ce @@ sp :
     ch \in CheckHosts,
     ps \in SeqsUpTo(SeedPaths, MaxSeeds) \ {<<>>},
     oh \in Optional("outputHost", OutputHosts),
     bl \in {"blackList" :> v : v \in BlackLists},
     ce \in Optional("checkExternalLinks", {TRUE}),
     sp \in {"sitemapPath" :> v : v \in SitemapPaths}}

\* typeof options[name] !== "undefined"
Has(o, name) == name \in DOMAIN o

\* What page.goto can do: throw, resolve to null, resolve to a response
GotoOutcomes ==
  {[kind |-> "throw", status |-> 0, ex |-> e] : e \in NavigationErrors}
  \cup {[kind |-> "null", status |-> 0, ex |-> ""]}
  \cup {[kind |-> "res", status |-> st, ex |-> ""] : st \in Statuses}

\* The anchors a page can hold: their hrefs, in document order
LinkLists == SeqsUpTo(Hrefs, MaxLinks)

-----------------------------------------------------------------------------
(* Strings *)

\* F applied to the value of v
Bind(v, F(_)) == CHOOSE r \in {F(x) : x \in {v}} : TRUE

\* String.prototype.startsWith
startsWith(s, p) == Len(s) >= Len(p) /\ SubSeq(s, 1, Len(p)) = p

\* String.prototype.substr(from), from counted from 0
substr(s, from) == SubSeq(s, from + 1, Len(s))

\* Array.prototype.indexOf, counted from 0, -1 when absent
indexOf(arr, x) ==
  IF \E i \in 1..Len(arr) : arr[i] = x
  THEN (CHOOSE i \in 1..Len(arr) :
          arr[i] = x /\ \A j \in 1..(i - 1) : arr[j] # x) - 1
  ELSE -1

\* The characters of the universe in collation order (punctuation before
\* digits before letters).
Collation == "-:./#0123456789abcdefghijklmnopqrstuvwxyz"

CollationRank ==
  [ch \in {SubSeq(Collation, i, i) : i \in 1..Len(Collation)} |->
     CHOOSE i \in 1..Len(Collation) : SubSeq(Collation, i, i) = ch]

CharRank(ch) == CollationRank[ch]

\* Comparison of a and b from their i-th characters on
RECURSIVE compareFrom(_, _, _)
compareFrom(a, b, i) ==
  IF i > Len(a) /\ i > Len(b) THEN 0
  ELSE IF i > Len(a) THEN -1
  ELSE IF i > Len(b) THEN 1
  ELSE IF CharRank(SubSeq(a, i, i)) < CharRank(SubSeq(b, i, i)) THEN -1
  ELSE IF CharRank(SubSeq(a, i, i)) > CharRank(SubSeq(b, i, i)) THEN 1
  ELSE compareFrom(a, b, i + 1)

\* The url strings a run can hold: the seeds, the hrefs and the hrefs
\* without the check host
KnownUrls ==
  SeedPaths \cup Hrefs \cup
  UNION {{substr(x, Len(h)) : x \in {y \in Hrefs : startsWith(y, h)}} :
           h \in CheckHosts}

\* The comparisons of the known urls, computed once
KnownComparisons == [a \in KnownUrls, b \in KnownUrls |-> compareFrom(a, b, 1)]

\* String.prototype.localeCompare: negative, zero or positive
localeCompare(a, b) ==
  IF a \in KnownUrls /\ b \in KnownUrls
  THEN KnownComparisons[a, b]
  ELSE compareFrom(a, b, 1)

\* s contains p as a substring
Contains(s, p) ==
  \E i \in 1..(Len(s) - Len(p) + 1) : SubSeq(s, i, i + Len(p) - 1) = p

-----------------------------------------------------------------------------
(* Collections *)

\* Map.prototype.set
MapSet(m, k, v) == [x \in (DOMAIN m) \cup {k} |-> IF x = k THEN v ELSE m[x]]

\* Set.prototype.add on an insertion-ordered set
SetAdd(s, x) == IF \E i \in 1..Len(s) : s[i] = x THEN s ELSE Append(s, x)

\* Set.prototype.delete
SetDelete(s, x) == SelectSeq(s, LAMBDA y : y # x)

Range(s) == {s[i] : i \in 1..Len(s)}

\* Place of arr[i] after a stable sort of arr by url: behind the elements
\* with a smaller url and the earlier elements with an equal url
PlaceByUrl(urls, i) ==
  1 + Cardinality({j \in 1..Len(urls) :
        \E cmp \in {localeCompare(urls[j], urls[i])} :
          cmp < 0 \/ (cmp = 0 /\ j < i)})

\* Array.prototype.sort((a, b) => a.url.localeCompare(b.url)) on an array
\* of references: stable, ascending by url
SortByUrl(ns, arr) ==
  Bind([k \in 1..Len(arr) |-> ns[arr[k]].url],
       LAMBDA urls :
         Bind([k \in 1..Len(arr) |-> PlaceByUrl(urls, k)],
              LAMBDA place :
                [p \in 1..Len(arr) |->
                   arr[CHOOSE i \in 1..Len(arr) : place[i] = p]]))

-----------------------------------------------------------------------------
(* The Checker.  c is the mutable part of a Checker object:                *)
(* [nodes, allNodes, targetNodes, finishedOurNodes, errorNodes].           *)

\* interface NodeInfo, as built by the two object literals of the code
NodeInfo(url, refs) ==
  [url |-> url, refs |-> refs, title |-> "", error |-> Undefined]

\* Fields of a freshly constructed Checker
EmptyChecker ==
  [nodes |-> <<>>, allNodes |-> <<>>, targetNodes |-> <<>>,
   finishedOurNodes |-> <<>>, errorNodes |-> <<>>]

\* Body of paths.forEach in runInternal
registerSeed(c, path) ==
  LET newNode == Len(c.nodes) + 1
  IN [c EXCEPT !.nodes = Append(@, NodeInfo(path, <<>>)),
               !.allNodes = MapSet(@, path, newNode),
               !.targetNodes = SetAdd(@, newNode)]

RECURSIVE registerSeeds(_, _)
registerSeeds(c, ps) ==
  IF ps = <<>> THEN c
  ELSE Bind(registerSeed(c, Head(ps)),
            LAMBDA d : registerSeeds(d, Tail(ps)))

\* The loop condition stopping one node early
loopConditionMoreThanOne(c) == Len(c.targetNodes) > 1

\* Condition of the while loop of runInternal
loopCondition(c) == Len(c.targetNodes) > 0

\* The node the sort puts last: the comparator with a and b exchanged
nextNodeDescending(c) ==
  SortByUrl(c.nodes, c.targetNodes)[Len(c.targetNodes)]

\* The first node of the frontier in insertion order, without the sort
nextNodeUnsorted(c) == c.targetNodes[1]

\* Array.from(this.targetNodes).sort(...)[0]
nextNode(c) == SortByUrl(c.nodes, c.targetNodes)[1]

\* checkUrl of checkPage
checkUrl(host, rawUrl) ==
  IF startsWith(rawUrl, "http://") \/ startsWith(rawUrl, "https://")
  THEN rawUrl
  ELSE host \o rawUrl

\* isExternalLink of checkPage
isExternalLink(host, rawUrl) == ~startsWith(checkUrl(host, rawUrl), host)

\* strippedHref cutting one character too many
strippedHrefOffByOne(host, href) ==
  IF startsWith(href, host) THEN substr(href, Len(host) + 1) ELSE href

\* strippedHref of checkPage
strippedHref(host, href) ==
  IF startsWith(href, host) THEN substr(href, Len(host)) ELSE href

\* The loop body that puts a known node back into the frontier
recordLinkRequeues(c, host, n, href) ==
  LET key == strippedHref(host, href)
      url == c.nodes[n].url
  IN IF key \notin DOMAIN c.allNodes
     THEN LET newNodeInfo == Len(c.nodes) + 1
          IN [c EXCEPT !.nodes = Append(@, NodeInfo(key, <<url>>)),
                       !.allNodes = MapSet(@, key, newNodeInfo),
                       !.targetNodes = SetAdd(@, newNodeInfo)]
     ELSE LET refNodeInfo == c.allNodes[key]
          IN IF indexOf(c.nodes[refNodeInfo].refs, url) < 0
             THEN [c EXCEPT !.nodes[refNodeInfo].refs = Append(@, url),
                            !.targetNodes = SetAdd(@, refNodeInfo)]
             ELSE c

\* The loop body that leaves a known node's referrers alone
recordLinkNoPush(c, host, n, href) ==
  LET key == strippedHref(host, href)
      url == c.nodes[n].url
  IN IF key \notin DOMAIN c.allNodes
     THEN LET newNodeInfo == Len(c.nodes) + 1
          IN [c EXCEPT !.nodes = Append(@, NodeInfo(key, <<url>>)),
                       !.allNodes = MapSet(@, key, newNodeInfo),
                       !.targetNodes = SetAdd(@, newNodeInfo)]
     ELSE c

\* The loop body pushing the referrer without looking for it first
recordLinkAlwaysPush(c, host, n, href) ==
  LET key == strippedHref(host, href)
      url == c.nodes[n].url
  IN IF key \notin DOMAIN c.allNodes
     THEN LET newNodeInfo == Len(c.nodes) + 1
          IN [c EXCEPT !.nodes = Append(@, NodeInfo(key, <<url>>)),
                       !.allNodes = MapSet(@, key, newNodeInfo),
                       !.targetNodes = SetAdd(@, newNodeInfo)]
     ELSE [c EXCEPT !.nodes[c.allNodes[key]].refs = Append(@, url)]

\* The loop body registering a new node without adding it to the frontier
recordLinkNotQueued(c, host, n, href) ==
  LET key == strippedHref(host, href)
      url == c.nodes[n].url
  IN IF key \notin DOMAIN c.allNodes
     THEN LET newNodeInfo == Len(c.nodes) + 1
          IN [c EXCEPT !.nodes = Append(@, NodeInfo(key, <<url>>)),
                       !.allNodes = MapSet(@, key, newNodeInfo)]
     ELSE LET refNodeInfo == c.allNodes[key]
          IN IF indexOf(c.nodes[refNodeInfo].refs, url) < 0
             THEN [c EXCEPT !.nodes[refNodeInfo].refs = Append(@, url)]
             ELSE c

\* Body of the for loop over the anchors, for the page of node n
recordLink(c, host, n, href) ==
  LET key == strippedHref(host, href)
      url == c.nodes[n].url
  IN IF key \notin DOMAIN c.allNodes
     THEN LET newNodeInfo == Len(c.nodes) + 1
          IN [c EXCEPT !.nodes = Append(@, NodeInfo(key, <<url>>)),
                       !.allNodes = MapSet(@, key, newNodeInfo),
                       !.targetNodes = SetAdd(@, newNodeInfo)]
     ELSE LET refNodeInfo == c.allNodes[key]
          IN IF indexOf(c.nodes[refNodeInfo].refs, url) < 0
             THEN [c EXCEPT !.nodes[refNodeInfo].refs = Append(@, url)]
             ELSE c

RECURSIVE recordLinks(_, _, _, _)
recordLinks(c, host, n, links) ==
  IF links = <<>> THEN c
  ELSE Bind(recordLink(c, host, n, Head(links)),
            LAMBDA d : recordLinks(d, host, n, Tail(links)))

\* The status test with the upper limit off by one
badStatusAbove400(status) == status < 200 \/ status > 400

\* The status test of checkPage
badStatus(status) == status < 200 \/ status >= 400

\* The try block with the throw for a missing response put back
tryFetchNullThrows(goto) ==
  IF goto.kind = "throw" THEN goto.ex
  ELSE IF goto.kind = "null" THEN "Error: " \o "null"
  ELSE IF goto.kind = "res" /\ badStatus(goto.status)
       THEN "Error: " \o "Status: " \o ToString(goto.status)
       ELSE ""

\* The try block of checkPage: "" when it completes, the text of the
\* exception (ex.toString()) when it throws
tryFetch(goto) ==
  IF goto.kind = "throw" THEN goto.ex
  ELSE IF goto.kind = "res" /\ badStatus(goto.status)
       THEN "Error: " \o "Status: " \o ToString(goto.status)
       ELSE ""

\* The catch block that records the error and throws it again
catchErrorRethrow(c, n, ex) ==
  [c |-> [c EXCEPT !.nodes[n].error = ex,
                   !.errorNodes = SetAdd(@, n)],
   threw |-> TRUE]

\* The catch block that sets the error and forgets errorNodes.add
catchErrorNotAdded(c, n, ex) ==
  [c |-> [c EXCEPT !.nodes[n].error = ex], threw |-> FALSE]

\* The catch block of checkPage: the error is recorded and swallowed
catchError(c, n, ex) ==
  [c |-> [c EXCEPT !.nodes[n].error = ex,
                   !.errorNodes = SetAdd(@, n)],
   threw |-> FALSE]

\* checkPage after the try block, without the return for external nodes
afterFetchNoReturn(c, host, ext, n, links) ==
  [c |-> recordLinks([c EXCEPT !.finishedOurNodes = SetAdd(@, n)],
                     host, n, links),
   threw |-> FALSE,
   calls |-> {"goto", "title", "links"}]

\* checkPage after the try block: an external node returns, an internal
\* one is finished and its anchors are recorded
afterFetch(c, host, ext, n, links) ==
  IF ext
  THEN [c |-> c, threw |-> FALSE, calls |-> {"goto", "title"}]
  ELSE [c |-> recordLinks([c EXCEPT !.finishedOurNodes = SetAdd(@, n)],
                          host, n, links),
        threw |-> FALSE,
        calls |-> {"goto", "title", "links"}]

\* checkPage that takes the title before it looks at the response
checkPageTitleFirst(c, host, external, n, resp) ==
  Bind(isExternalLink(host, c.nodes[n].url), LAMBDA ext :
    IF ext /\ ~external
    THEN [c |-> c, threw |-> FALSE, calls |-> {}]
    ELSE Bind([c EXCEPT !.nodes[n].title = resp.title], LAMBDA titled :
           Bind(tryFetch(resp.goto), LAMBDA ex :
             IF ex # ""
             THEN catchError(titled, n, ex) @@ [calls |-> {"goto"}]
             ELSE afterFetch(titled, host, ext, n, resp.links))))

\* checkPage without the early return for external nodes
checkPageNoSkip(c, host, external, n, resp) ==
  Bind(isExternalLink(host, c.nodes[n].url), LAMBDA ext :
    Bind(tryFetch(resp.goto), LAMBDA ex :
      IF ex # ""
      THEN catchError(c, n, ex) @@ [calls |-> {"goto"}]
      ELSE Bind([c EXCEPT !.nodes[n].title = resp.title], LAMBDA titled :
             afterFetch(titled, host, ext, n, resp.links))))

\* checkPage whose catch block lacks its return: the errored node goes on
\* to the code behind the try statement
checkPageCatchFallsThrough(c, host, external, n, resp) ==
  Bind(isExternalLink(host, c.nodes[n].url), LAMBDA ext :
    IF ext /\ ~external
    THEN [c |-> c, threw |-> FALSE, calls |-> {}]
    ELSE Bind(tryFetch(resp.goto), LAMBDA ex :
           IF ex # ""
           THEN afterFetch(catchError(c, n, ex).c, host, ext, n, resp.links)
           ELSE Bind([c EXCEPT !.nodes[n].title = resp.title], LAMBDA titled :
                  afterFetch(titled, host, ext, n, resp.links))))

\* checkPage(nodeInfo) when the page answers resp.  Result: the Checker
\* afterwards, whether the promise rejected, and the page calls made.
checkPage(c, host, external, n, resp) ==
  Bind(isExternalLink(host, c.nodes[n].url), LAMBDA ext :
    IF ext /\ ~external
    THEN [c |-> c, threw |-> FALSE, calls |-> {}]
    ELSE Bind(tryFetch(resp.goto), LAMBDA ex :
           IF ex # ""
           THEN catchError(c, n, ex) @@ [calls |-> {"goto"}]
           ELSE Bind([c EXCEPT !.nodes[n].title = resp.title], LAMBDA titled :
                  afterFetch(titled, host, ext, n, resp.links))))

\* The entries writeSitemap puts in the document: the bodies of the <loc>
\* elements, in document order
sitemapEntries(c, outHost, black) ==
  Bind(SelectSeq(SortByUrl(c.nodes, c.finishedOurNodes),
                 LAMBDA n : ~(indexOf(black, c.nodes[n].url) >= 0)),
       LAMBDA kept : [i \in 1..Len(kept) |-> outHost \o c.nodes[kept[i]].url])

\* writeSitemap against a file system
writeSitemap(fs, c, path, outHost, black) ==
  IF path = Null THEN fs
  ELSE MapSet(fs, path, sitemapEntries(c, outHost, black))

-----------------------------------------------------------------------------
(* The page fetcher's answers *)

\* What a navigation amounts to: the exception it raised, the status it
\* returned outside [200, 400), or "ok" (a status in range, or no response)
Outcome(goto) ==
  IF goto.kind = "throw" THEN goto.ex
  ELSE IF goto.kind = "res" /\ (goto.status < 200 \/ goto.status >= 400)
       THEN ToString(goto.status)
       ELSE "ok"

\* resp agrees with what the page at target answered before
Consistent(s, target, resp) ==
  target \in DOMAIN s =>
    /\ Outcome(resp.goto) = s[target].outcome
    /\ s[target].title # <<>> => resp.title = s[target].title[1]
    /\ s[target].links # <<>> => resp.links = s[target].links[1]

\* The parts of the page the crawler does not ask for are left unchosen
Unasked(resp, calls) ==
  /\ "goto" \notin calls => resp.goto = [kind |-> "null", status |-> 0, ex |-> ""]
  /\ "title" \notin calls => resp.title = CHOOSE t \in Titles : TRUE
  /\ "links" \notin calls => resp.links = <<>>

\* The answers of the page at target are remembered, call by call
Observe(s, target, resp, calls) ==
  IF calls = {} THEN s
  ELSE LET old == IF target \in DOMAIN s THEN s[target]
                  ELSE [outcome |-> "", title |-> <<>>, links |-> <<>>]
       IN MapSet(s, target,
            [outcome |-> Outcome(resp.goto),
             title |-> IF "title" \in calls THEN <<resp.title>> ELSE old.title,
             links |-> IF "links" \in calls THEN <<resp.links>> ELSE old.links])

\* The navigation to target completed without an exception and without a
\* status outside [200, 400)
FetchedOk(target) == target \in DOMAIN site /\ site[target].outcome = "ok"

\* The page calls checkPage makes for node n when the navigation ends as
\* goto: they do not depend on the anchors, which are asked for last
Asked(c, host, external, n, goto, title) ==
  checkPage(c, host, external, n,
            [goto |-> goto, title |-> title, links |-> <<>>]).calls

-----------------------------------------------------------------------------
(* State machine of one run: Checker.run *)

Self ==
  [nodes |-> nodes, allNodes |-> allNodes, targetNodes |-> targetNodes,
   finishedOurNodes |-> finishedOurNodes, errorNodes |-> errorNodes]

SetSelf(c) ==
  /\ nodes' = c.nodes
  /\ allNodes' = c.allNodes
  /\ targetNodes' = c.targetNodes
  /\ finishedOurNodes' = c.finishedOurNodes
  /\ errorNodes' = c.errorNodes

config == <<options, checkHost, outputHost, checkExternalLinks, sitemapPath, blackList,
            paths>>

\* page.goto was not called
NoGoto == [kind |-> "none", status |-> 0, ex |-> ""]

\* The output host the constructor keeps
constructOutputHost(o) ==
  IF ~Has(o, "outputHost") THEN o.checkHost ELSE o.outputHost

\* Checker.run(options): the constructor, then runInternal(options.paths)
Construct(o) ==
  /\ options = o
  /\ checkHost = o.checkHost
  /\ outputHost = constructOutputHost(o)
  /\ checkExternalLinks =
       (Has(o, "checkExternalLinks") /\ o.checkExternalLinks = TRUE)
  /\ sitemapPath = IF Has(o, "sitemapPath") THEN o.sitemapPath ELSE Null
  /\ blackList = IF ~Has(o, "blackList") THEN <<>> ELSE o.blackList
  /\ paths = o.paths
  /\ nodes = EmptyChecker.nodes
  /\ allNodes = EmptyChecker.allNodes
  /\ targetNodes = EmptyChecker.targetNodes
  /\ finishedOurNodes = EmptyChecker.finishedOurNodes
  /\ errorNodes = EmptyChecker.errorNodes
  /\ browserOpen = TRUE
  /\ closeCount = 0
  /\ files = <<>>
  /\ pc = "start"
  /\ site = <<>>
  /\ visited = <<>>
  /\ lastGoto = NoGoto

NoTwin == <<>>

Init == (\E o \in CheckerOptions : Construct(o)) /\ twin = NoTwin

\* runInternal: paths.forEach(...)
StartCore ==
  /\ pc = "start"
  /\ SetSelf(registerSeeds(Self, paths))
  /\ pc' = "loop"
  /\ UNCHANGED <<config, browserOpen, closeCount, files, site, visited>>

\* runInternal: one iteration of the while loop, checkPage included, when
\* the page answers resp to the calls asked; Also(resp, asked) is what is
\* done with the same answer beside this run
IterateWith(Also(_, _)) ==
  /\ pc = "loop"
  /\ loopCondition(Self)
  /\ \E nodeInfo \in {nextNode(Self)} :
     \E target \in {checkUrl(checkHost, nodes[nodeInfo].url)} :
     \E popped \in {[Self EXCEPT !.targetNodes = SetDelete(@, nodeInfo)]} :
     \E goto \in GotoOutcomes, title \in Titles :
     \E asked \in {Asked(popped, checkHost, checkExternalLinks, nodeInfo,
                          goto, title)} :
     \E links \in (IF "links" \in asked THEN LinkLists ELSE {<<>>}) :
     \E resp \in {[goto |-> goto, title |-> title, links |-> links]} :
       /\ Consistent(site, target, resp)
       /\ Unasked(resp, asked)
       /\ site' = Observe(site, target, resp, asked)
       /\ visited' = Append(visited, nodeInfo)
       /\ \E r \in {checkPage(popped, checkHost, checkExternalLinks,
                              nodeInfo, resp)} :
            /\ r.calls = asked
            /\ SetSelf(r.c)
            /\ pc' = IF r.threw THEN "aborted" ELSE "loop"
       /\ Also(resp, asked)
  /\ UNCHANGED <<config, browserOpen, closeCount, files>>

IterateCore == IterateWith(LAMBDA resp, asked : TRUE)

\* runInternal: the loop ends, await this.close()
CloseCore ==
  /\ pc = "loop"
  /\ ~loopCondition(Self)
  /\ browserOpen' = FALSE
  /\ closeCount' = closeCount + 1
  /\ pc' = "write"
  /\ UNCHANGED <<config, nodes, allNodes, targetNodes, finishedOurNodes,
                 errorNodes, files, site, visited>>

\* runInternal: this.writeSitemap()
WriteCore ==
  /\ pc = "write"
  /\ files' = writeSitemap(files, Self, sitemapPath, outputHost, blackList)
  /\ pc' = "done"
  /\ UNCHANGED <<config, nodes, allNodes, targetNodes, finishedOurNodes,
                 errorNodes, browserOpen, closeCount, site, visited>>

Start == StartCore /\ UNCHANGED <<twin, lastGoto>>

Iterate == IterateCore /\ UNCHANGED <<twin, lastGoto>>

Close == CloseCore /\ UNCHANGED <<twin, lastGoto>>

WriteSitemap == WriteCore /\ UNCHANGED <<twin, lastGoto>>

Next == Start \/ Iterate \/ Close \/ WriteSitemap

Spec == Init /\ [][Next]_vars

\* The run is sequential and nothing else is scheduled: every await of
\* runInternal resolves or rejects, so a step that can be taken is taken
FairSpec == Spec /\ WF_vars(Next)

\* The same run, with what page.goto did in the last iteration kept beside
\* it (NoGoto when checkPage returned before calling it)
IterateObs ==
  /\ IterateWith(LAMBDA resp, asked :
       lastGoto' = IF "goto" \in asked THEN resp.goto ELSE NoGoto)
  /\ UNCHANGED twin

NextObs == Start \/ IterateObs \/ Close \/ WriteSitemap

SpecObs == Init /\ [][NextObs]_vars

\* checkPage when the anchor extraction throws (page.$$("a"), getProperty,
\* jsonValue or href.startsWith) after the anchors before were recorded:
\* nothing catches it, the promise of checkPage rejects
afterFetchThrows(c, host, n, before) ==
  [c |-> recordLinks([c EXCEPT !.finishedOurNodes = SetAdd(@, n)],
                     host, n, before),
   threw |-> TRUE]

\* runInternal: an iteration of the while loop in which the navigation to an
\* internal page succeeds and the anchor extraction throws; runInternal
\* rejects at the await of checkPage
IterateThrows ==
  /\ pc = "loop"
  /\ loopCondition(Self)
  /\ \E nodeInfo \in {nextNode(Self)} :
     \E target \in {checkUrl(checkHost, nodes[nodeInfo].url)} :
     \E popped \in {[Self EXCEPT !.targetNodes = SetDelete(@, nodeInfo)]} :
     \E goto \in GotoOutcomes, title \in Titles :
     \E before \in SeqsUpTo(Hrefs, MaxLinks - 1) :
     \E resp \in {[goto |-> goto, title |-> title, links |-> <<>>]} :
       /\ ~isExternalLink(checkHost, nodes[nodeInfo].url)
       /\ tryFetch(goto) = ""
       /\ Consistent(site, target, [resp EXCEPT !.links =
             IF target \in DOMAIN site /\ site[target].links # <<>>
             THEN site[target].links[1] ELSE <<>>])
       /\ target \in DOMAIN site /\ site[target].links # <<>> =>
            /\ Len(before) < Len(site[target].links[1])
            /\ before = SubSeq(site[target].links[1], 1, Len(before))
       /\ site' = Observe(site, target, resp, {"goto", "title"})
       /\ visited' = Append(visited, nodeInfo)
       /\ \E r \in {afterFetchThrows(
                       [popped EXCEPT !.nodes[nodeInfo].title = title],
                       checkHost, nodeInfo, before)} :
            /\ SetSelf(r.c)
            /\ pc' = IF r.threw THEN "aborted" ELSE "loop"
  /\ UNCHANGED <<config, browserOpen, closeCount, files, twin, lastGoto>>

NextThrows == Next \/ IterateThrows

\* The run with pages whose anchor extraction can throw
SpecThrows == Init /\ [][NextThrows]_vars

-----------------------------------------------------------------------------
(* Two runs against the same site.  The second Checker, twin, is built    *)
(* from the same options with the seeds in any order; it advances with     *)
(* the first, and every page answers it as it answered the first, with its *)
(* anchors in any order.                                                   *)

\* The orderings of a list
PermsOf(s) ==
  {[i \in 1..Len(s) |-> s[f[i]]] : f \in Permutations(1..Len(s))}

\* The urls the twin handed to checkPage, in order
TwinVisitedUrls ==
  [i \in 1..Len(twin.visited) |-> twin.c.nodes[twin.visited[i]].url]

\* The options of the two runs: the output host, which only prefixes the
\* entries, is always given
InitDet ==
  \E o \in {x \in CheckerOptions : Has(x, "outputHost")} :
    /\ Construct(o)
    /\ \E p \in PermsOf(o.paths) :
         twin = [paths |-> p, c |-> EmptyChecker, pc |-> "start",
                 visited |-> <<>>, files |-> <<>>]

\* runInternal of the twin: paths.forEach(...)
TwinStart ==
  twin' = [twin EXCEPT !.c = registerSeeds(twin.c, twin.paths),
                       !.pc = "loop"]

\* runInternal of the twin: one iteration of the while loop, when the page
\* answers as it answered the first run, with its anchors in any order
TwinIterate(resp) ==
  /\ twin.pc = "loop"
  /\ loopCondition(twin.c)
  /\ \E nodeInfo \in {nextNode(twin.c)} :
     \E popped \in {[twin.c EXCEPT !.targetNodes = SetDelete(@, nodeInfo)]} :
     \E links \in PermsOf(resp.links) :
     \E r \in {checkPage(popped, checkHost, checkExternalLinks, nodeInfo,
                          [resp EXCEPT !.links = links])} :
       twin' = [twin EXCEPT !.c = r.c,
                            !.visited = Append(@, nodeInfo),
                            !.pc = IF r.threw THEN "aborted" ELSE "loop"]

\* runInternal of the twin: the loop ends
TwinClose ==
  /\ twin.pc = "loop"
  /\ ~loopCondition(twin.c)
  /\ twin' = [twin EXCEPT !.pc = "write"]

\* runInternal of the twin: this.writeSitemap()
TwinWrite ==
  /\ twin.pc = "write"
  /\ twin' = [twin EXCEPT
                !.files = writeSitemap(@, twin.c, sitemapPath, outputHost,
                                       blackList),
                !.pc = "done"]

\* Both runs take the same step of runInternal; the twin stays where it is
\* when its run is at another place than the first
StartDet == StartCore /\ TwinStart /\ UNCHANGED lastGoto

IterateDet ==
  /\ IterateWith(LAMBDA resp, asked :
       IF twin.pc = "loop" /\ loopCondition(twin.c)
       THEN TwinIterate(resp) ELSE UNCHANGED twin)
  /\ UNCHANGED lastGoto

CloseDet ==
  /\ CloseCore
  /\ IF twin.pc = "loop" /\ ~loopCondition(twin.c)
     THEN TwinClose ELSE UNCHANGED twin
  /\ UNCHANGED lastGoto

WriteDet ==
  /\ WriteCore
  /\ IF twin.pc = "write" THEN TwinWrite ELSE UNCHANGED twin
  /\ UNCHANGED lastGoto

NextDet == StartDet \/ IterateDet \/ CloseDet \/ WriteDet

SpecDet == InitDet /\ [][NextDet]_vars

-----------------------------------------------------------------------------
(* Vocabulary of the properties, stated on urls and on what the pages      *)
(* answered, independently of the Checker's own computations               *)

\* The fetch target of a url: the url itself when it carries a scheme,
\* the check host followed by the url otherwise
FetchTargetOf(url) ==
  IF startsWith(url, "http://") \/ startsWith(url, "https://") THEN url
  ELSE checkHost \o url

\* Same-origin: the fetch target begins with the check host
IsInternalUrl(url) == startsWith(FetchTargetOf(url), checkHost)

\* The registry key of a link target
KeyOf(href) ==
  IF startsWith(href, checkHost)
  THEN SubSeq(href, Len(checkHost) + 1, Len(href))
  ELSE href

\* The url was fetched as a same-origin page and the fetch succeeded
SucceededInternal(url) ==
  IsInternalUrl(url) /\ FetchedOk(FetchTargetOf(url))

\* The entries of the emitted sitemap (none while it is not written)
Emitted == IF sitemapPath \in DOMAIN files THEN files[sitemapPath] ELSE <<>>

\* Keys of the links of a successfully fetched internal page
LinkKeysOf(url) ==
  IF SucceededInternal(url) /\ site[FetchTargetOf(url)].links # <<>>
  THEN {KeyOf(h) : h \in Range(site[FetchTargetOf(url)].links[1])}
  ELSE {}

RECURSIVE LinkClosure(_)
LinkClosure(S) ==
  Bind(S \cup UNION {LinkKeysOf(u) : u \in S},
       LAMBDA T : IF T = S THEN S ELSE LinkClosure(T))

\* The urls reachable from the seeds along links of successful internal pages
Reachable == LinkClosure(Range(paths))

UrlsOf(refs) == {nodes[n].url : n \in Range(refs)}

\* The urls handed to checkPage, in order
VisitedUrls == [i \in 1..Len(visited) |-> nodes[visited[i]].url]

-----------------------------------------------------------------------------
(* Properties *)

\* C1: every entry of the emitted sitemap is the output host followed by a
\* url that was handed to checkPage, whose fetch target begins with the
\* check host, whose fetch neither failed nor returned a status outside
\* [200, 400), and which is not in the block-list.
C1_SitemapEntriesSound ==
  \A i \in 1..Len(Emitted) :
    \E u \in Range(VisitedUrls) :
      /\ Emitted[i] = outputHost \o u
      /\ SucceededInternal(u)
      /\ u \notin Range(blackList)

\* C1 witness: a sitemap with an entry was emitted by a run that also met a
\* failed fetch, an external url and a finished url of the block-list.
C1_Witness ==
  /\ pc = "done"
  /\ Len(Emitted) >= 1
  /\ errorNodes # <<>>
  /\ \E u \in Range(VisitedUrls) : ~IsInternalUrl(u)
  /\ \E u \in UrlsOf(finishedOurNodes) : u \in Range(blackList)

\* C2: when the loop has ended, every reachable url is registered, the
\* frontier is empty, every reachable internal url was fetched and is
\* finished or errored, the links of every reachable successful page were
\* read, and the sitemap lists every successful internal url that is not in
\* the block-list.
C2_CrawlComplete ==
  pc \in {"write", "done"} =>
    /\ Reachable \subseteq DOMAIN allNodes
    /\ targetNodes = <<>>
    /\ \A u \in Reachable :
         IsInternalUrl(u) =>
           /\ FetchTargetOf(u) \in DOMAIN site
           /\ u \in UrlsOf(finishedOurNodes) \cup UrlsOf(errorNodes)
           /\ FetchedOk(FetchTargetOf(u)) =>
                site[FetchTargetOf(u)].links # <<>>
    /\ pc = "done" =>
         \A u \in Reachable :
           SucceededInternal(u) /\ u \notin Range(blackList) =>
             \E i \in 1..Len(Emitted) : Emitted[i] = outputHost \o u

\* C2 witness: the crawl ended having discovered urls beyond the seeds, one
\* of them internal and successfully fetched, and the sitemap has an entry.
C2_Witness ==
  /\ pc = "done"
  /\ \E u \in Reachable \ Range(paths) : SucceededInternal(u)
  /\ \E u \in Reachable \ Range(paths) : ~IsInternalUrl(u)
  /\ Len(Emitted) >= 2

C4_OneNodePerUrl ==
  /\ \A i, j \in 1..Len(nodes) : nodes[i].url = nodes[j].url => i = j
  /\ \A i, j \in 1..Len(visited) :
       VisitedUrls[i] = VisitedUrls[j] => i = j

\* C5: no node's refs holds the same source url twice.
C5_NoDuplicateReferrers ==
  \A n \in 1..Len(nodes) :
    \A i, j \in 1..Len(nodes[n].refs) :
      nodes[n].refs[i] = nodes[n].refs[j] => i = j

\* C5 witness: a node with two referrers, one of them itself, while some
\* page lists the same href twice.
C5_Witness ==
  /\ \E n \in 1..Len(nodes) :
       Len(nodes[n].refs) >= 2 /\ nodes[n].url \in Range(nodes[n].refs)
  /\ \E t \in DOMAIN site :
       /\ site[t].links # <<>>
       /\ \E i, j \in 1..Len(site[t].links[1]) :
            i # j /\ site[t].links[1][i] = site[t].links[1][j]

\* An iteration of the loop that processes an external node while external
\* links are checked
ExternalStep ==
  /\ checkExternalLinks
  /\ Len(visited') = Len(visited) + 1
  /\ ~IsInternalUrl(nodes[visited'[Len(visited')]].url)

\* C6: processing an external node with external-link checking enabled
\* registers nothing, takes only the node itself out of the frontier, and
\* leaves the finished set and every other node as they were.
C6_ExternalFrame ==
  [][ExternalStep =>
       LET n == visited'[Len(visited')]
       IN /\ DOMAIN allNodes' = DOMAIN allNodes
          /\ allNodes' = allNodes
          /\ Len(nodes') = Len(nodes)
          /\ \A m \in 1..Len(nodes) : m # n => nodes'[m] = nodes[m]
          /\ nodes'[n].refs = nodes[n].refs
          /\ targetNodes' = SelectSeq(targetNodes, LAMBDA m : m # n)
          /\ finishedOurNodes' = finishedOurNodes]_vars

\* C6 witness: with external-link checking enabled, external nodes were
\* fetched, one successfully and one not, while the frontier was not empty.
C6_Witness ==
  /\ checkExternalLinks
  /\ targetNodes # <<>>
  /\ \E i \in 1..Len(visited) :
       /\ ~IsInternalUrl(VisitedUrls[i])
       /\ FetchTargetOf(VisitedUrls[i]) \in DOMAIN site
       /\ site[FetchTargetOf(VisitedUrls[i])].outcome = "ok"

C8_Deterministic ==
  /\ twin.pc = pc
  /\ TwinVisitedUrls = VisitedUrls
  /\ twin.files = files

\* C8 witness: both runs are done; the twin had its seeds in another order
\* and built its nodes in another order, a page with two different anchors
\* was read, and the sitemap has two entries.
C8_Witness ==
  /\ pc = "done"
  /\ twin.pc = "done"
  /\ twin.paths # paths
  /\ [i \in 1..Len(twin.c.nodes) |-> twin.c.nodes[i].url]
       # [i \in 1..Len(nodes) |-> nodes[i].url]
  /\ \E t \in DOMAIN site :
       /\ site[t].links # <<>>
       /\ Cardinality(Range(site[t].links[1])) = 2
  /\ Len(Emitted) >= 2

\* The url of the i-th entry: what follows the output host
EntryUrl(i) == SubSeq(Emitted[i], Len(outputHost) + 1, Len(Emitted[i]))

\* Positions of finishedOurNodes whose url is not in the block-list
KeptFinished ==
  {k \in 1..Len(finishedOurNodes) :
     nodes[finishedOurNodes[k]].url \notin Range(blackList)}

\* The emitted entries are the finished urls outside the block-list, each
\* once per finished node, ascending by url, each behind the output host,
\* which is options.outputHost when given and the check host otherwise
SitemapIsSortedFilteredFinished ==
  /\ Len(Emitted) = Cardinality(KeptFinished)
  /\ \A i \in 1..Len(Emitted) :
       \E k \in KeptFinished :
         Emitted[i] = outputHost \o nodes[finishedOurNodes[k]].url
  /\ \A k \in KeptFinished :
       LET u == nodes[finishedOurNodes[k]].url
       IN Cardinality({i \in 1..Len(Emitted) : Emitted[i] = outputHost \o u})
            = Cardinality({j \in KeptFinished :
                             nodes[finishedOurNodes[j]].url = u})
  /\ \A i, j \in 1..Len(Emitted) :
       i < j => localeCompare(EntryUrl(i), EntryUrl(j)) <= 0
  /\ outputHost = IF "outputHost" \in DOMAIN options
                  THEN options.outputHost ELSE checkHost

\* With an output host other than the check host, no entry holds the check
\* host
NoCheckHostInEntries ==
  outputHost # checkHost =>
    \A i \in 1..Len(Emitted) : ~Contains(Emitted[i], checkHost)

\* C9: the emitted sitemap is the finished urls with the block-listed ones
\* removed, ascending by url, each entry the output host followed by the
\* url; the output host is outputHost when configured and checkHost
\* otherwise; and the check host appears in no entry when the output host
\* differs from it.  (A same-origin seed given as an absolute url breaks the
\* last part: its entry is the output host followed by the whole url.)
C9_SitemapSequence ==
  pc = "done" => SitemapIsSortedFilteredFinished /\ NoCheckHostInEntries

\* Membership of a node in the three sets
IsPending(n) == n \in Range(targetNodes)
IsFinished(n) == n \in Range(finishedOurNodes)
IsErrored(n) == n \in Range(errorNodes)

AnsweredBadStatus(n) ==
  /\ n \in Range(visited)
  /\ FetchTargetOf(nodes[n].url) \in DOMAIN site
  /\ \E st \in Statuses :
       site[FetchTargetOf(nodes[n].url)].outcome = ToString(st)

\* What holds of a node whose page answered a status outside [200, 400),
\* apart from the text of its error
BadStatusNodeKept(n) ==
  /\ IsErrored(n)
  /\ ~IsFinished(n)
  /\ site[FetchTargetOf(nodes[n].url)].links = <<>>
  /\ \A i \in 1..Len(Emitted) : Emitted[i] # outputHost \o nodes[n].url
  /\ nodes[n].url \in DOMAIN allNodes

\* C11 (as claimed): a node whose page answered a status outside [200, 400)
\* carries the error "Status: <code>", is errored, is not finished, had no
\* anchors read, has no sitemap entry, stays in the registry and keeps its
\* referrers.
C11_BadStatusAsClaimed ==
  [][\A n \in 1..Len(nodes') :
       AnsweredBadStatus(n)' =>
         /\ nodes'[n].error =
              "Status: " \o site'[FetchTargetOf(nodes'[n].url)].outcome
         /\ BadStatusNodeKept(n)'
         /\ n <= Len(nodes) => Range(nodes[n].refs) \subseteq Range(nodes'[n].refs)
    ]_vars

\* C11 (amended): the same, the error being "Error: Status: <code>", the
\* text of the Error whose message is "Status: <code>".
C11_BadStatus ==
  [][\A n \in 1..Len(nodes') :
       AnsweredBadStatus(n)' =>
         /\ nodes'[n].error =
              "Error: Status: " \o site'[FetchTargetOf(nodes'[n].url)].outcome
         /\ BadStatusNodeKept(n)'
         /\ n <= Len(nodes) => Range(nodes[n].refs) \subseteq Range(nodes'[n].refs)
    ]_vars

\* C11 witness: the run is done; a node with referrers answered a status
\* below 200 and another one a status of 400, and the sitemap has an entry.
C11_Witness ==
  /\ pc = "done"
  /\ Len(Emitted) >= 1
  /\ \E n, m \in 1..Len(nodes) :
       /\ AnsweredBadStatus(n) /\ AnsweredBadStatus(m)
       /\ nodes[n].refs # <<>>
       /\ nodes[n].error = "Error: Status: 199"
       /\ nodes[m].error = "Error: Status: 400"

\* The node handed to checkPage by the step just taken
Current == visited'[Len(visited')]

\* A loop iteration in which page.goto resolved to null
NoResponseStep ==
  /\ Len(visited') = Len(visited) + 1
  /\ lastGoto'.kind = "null"

\* The page of the fetch target t as the step leaves it, the navigation
\* having answered goto
PageAfter(t, goto) ==
  [goto |-> goto,
   title |-> site'[t].title[1],
   links |-> IF site'[t].links # <<>> THEN site'[t].links[1] ELSE <<>>]

\* C12: an iteration whose navigation resolved to no response leaves the node
\* without error and outside the errored set, with the page's title, and,
\* when the node is internal, finished, its anchors read and every link key
\* registered; the Checker is left exactly as a status in [200, 400) would
\* have left it.
C12_NoResponseIsSuccess ==
  [][NoResponseStep =>
       LET n == Current
           u == nodes[n].url
           t == FetchTargetOf(u)
           popped == [Self EXCEPT !.targetNodes = SetDelete(@, n)]
       IN /\ nodes'[n].error = Undefined
          /\ n \notin Range(errorNodes')
          /\ site'[t].title # <<>>
          /\ nodes'[n].title = site'[t].title[1]
          /\ IsInternalUrl(u) =>
               /\ n \in Range(finishedOurNodes')
               /\ site'[t].links # <<>>
               /\ \A h \in Range(site'[t].links[1]) :
                    KeyOf(h) \in DOMAIN allNodes'
          /\ \A st \in {x \in Statuses : 200 <= x /\ x < 400} :
               Self' = checkPage(popped, checkHost, checkExternalLinks, n,
                         PageAfter(t, [kind |-> "res", status |-> st,
                                       ex |-> ""])).c
    ]_vars

\* C12 witness: the last navigation resolved to no response for an internal
\* node, which is finished and whose page gave a link to a new node.
C12_Witness ==
  /\ visited # <<>>
  /\ lastGoto.kind = "null"
  /\ LET n == visited[Len(visited)]
     IN /\ IsInternalUrl(nodes[n].url)
        /\ IsFinished(n)
        /\ nodes[n].title # ""
        /\ \E m \in 1..Len(nodes) : nodes[m].refs = <<nodes[n].url>> /\ m > n

\* A loop iteration that processes an external node while external links
\* are not checked
SkippedExternalStep ==
  /\ ~checkExternalLinks
  /\ Len(visited') = Len(visited) + 1
  /\ ~IsInternalUrl(nodes[Current].url)

\* C13: while external links are not checked, no fetch target outside the
\* check host is ever navigated to, and an iteration that processes an
\* external node leaves every node (title, error, referrers), the registry,
\* the finished set and the errored set as they were and only takes the node
\* out of the frontier.
C13_ExternalSkipped ==
  [][/\ ~checkExternalLinks =>
          \A t \in DOMAIN site' : startsWith(t, checkHost)
     /\ SkippedExternalStep =>
          /\ site' = site
          /\ nodes' = nodes
          /\ nodes'[Current].title = ""
          /\ nodes'[Current].error = Undefined
          /\ allNodes' = allNodes
          /\ finishedOurNodes' = finishedOurNodes
          /\ errorNodes' = errorNodes
          /\ Current \notin Range(finishedOurNodes') \cup Range(errorNodes')
          /\ targetNodes' = SelectSeq(targetNodes, LAMBDA m : m # Current)
    ]_vars

\* C13 witness: external links are not checked, an external node with a
\* referrer was handed to checkPage, a page was fetched and nodes still wait.
C13_Witness ==
  /\ ~checkExternalLinks
  /\ targetNodes # <<>>
  /\ site # <<>>
  /\ \E i \in 1..Len(visited) :
       /\ ~IsInternalUrl(VisitedUrls[i])
       /\ nodes[visited[i]].refs # <<>>

\* A loop iteration: a node is handed to checkPage
IterationStep == Len(visited') = Len(visited) + 1

\* C14: every iteration takes out of the frontier, and hands to checkPage, a
\* node of the frontier whose url no url of the frontier precedes in the
\* order of localeCompare, and the node is not in the frontier afterwards;
\* an iteration is taken only with a non-empty frontier, and with an empty
\* frontier the loop is left.
C14_SmallestFirst ==
  [][/\ IterationStep =>
          /\ pc = "loop"
          /\ targetNodes # <<>>
          /\ Current \in Range(targetNodes)
          /\ \A m \in Range(targetNodes) :
               localeCompare(nodes[Current].url, nodes[m].url) <= 0
          /\ Current \notin Range(targetNodes')
          /\ \A m \in Range(targetNodes) \ {Current} :
               m \in Range(targetNodes')
     /\ pc = "loop" /\ targetNodes = <<>> => pc' = "write"
     /\ pc = "loop" /\ pc' # "loop" => targetNodes = <<>>
    ]_vars

\* C14 witness: the node just handed to checkPage was created after a node
\* with a greater url that still waits in the frontier.
C14_Witness ==
  /\ visited # <<>>
  /\ \E m \in Range(targetNodes) :
       /\ m < visited[Len(visited)]
       /\ localeCompare(nodes[visited[Len(visited)]].url, nodes[m].url) < 0

\* A loop iteration that fetched an internal page successfully
InternalSuccessStep ==
  /\ IterationStep
  /\ IsInternalUrl(nodes[Current].url)
  /\ site'[FetchTargetOf(nodes[Current].url)].outcome = "ok"

\* The keys of the anchors read by the step just taken
StepKeys ==
  {KeyOf(h) : h \in Range(site'[FetchTargetOf(nodes[Current].url)].links[1])}

\* C15: after an iteration that fetched an internal page successfully, the
\* registry has exactly the old keys and the keys of the page's anchors (the
\* href without the check host when it begins with it, the href otherwise);
\* every key that was unknown has a new node with the page's url as its only
\* referrer, an empty title and no error, which is in the frontier; every
\* key that was known keeps its node, which gains the page's url as a
\* referrer unless it has it and is otherwise unchanged, and the frontier
\* holds the nodes it held, without the processed one, and the new ones.
C15_LinkRecording ==
  [][InternalSuccessStep =>
       LET n == Current
           u == nodes[n].url
           new == StepKeys \ DOMAIN allNodes
       IN /\ site'[FetchTargetOf(u)].links # <<>>
          /\ DOMAIN allNodes' = DOMAIN allNodes \cup StepKeys
          /\ Len(nodes') = Len(nodes) + Cardinality(new)
          /\ \A k \in new :
               /\ allNodes'[k] > Len(nodes)
               /\ nodes'[allNodes'[k]] =
                    [url |-> k, refs |-> <<u>>, title |-> "",
                     error |-> Undefined]
               /\ allNodes'[k] \in Range(targetNodes')
          /\ \A k \in DOMAIN allNodes :
               LET m == allNodes[k]
               IN /\ allNodes'[k] = m
                  /\ nodes'[m].url = nodes[m].url
                  /\ nodes'[m].error = nodes[m].error
                  /\ m # n => nodes'[m].title = nodes[m].title
                  /\ nodes'[m].refs =
                       IF k \in StepKeys /\ u \notin Range(nodes[m].refs)
                       THEN Append(nodes[m].refs, u)
                       ELSE nodes[m].refs
          /\ Range(targetNodes') =
               (Range(targetNodes) \ {n}) \cup {allNodes'[k] : k \in new}
    ]_vars

\* C15 witness: a finished page had an anchor beginning with the check host
\* whose key was unknown and got a new node, and an anchor to a key that was
\* known, whose node has two referrers.
C15_Witness ==
  \E n \in Range(finishedOurNodes) :
    LET u == nodes[n].url
        t == FetchTargetOf(u)
    IN /\ site[t].links # <<>>
       /\ \E h \in Range(site[t].links[1]) :
            /\ startsWith(h, checkHost)
            /\ nodes[allNodes[KeyOf(h)]].refs[1] = u
            /\ allNodes[KeyOf(h)] > n
       /\ \E h \in Range(site[t].links[1]) :
            /\ Len(nodes[allNodes[KeyOf(h)]].refs) >= 2
            /\ nodes[allNodes[KeyOf(h)]].refs[2] = u

\* The urls of the successfully fetched internal pages with an anchor whose
\* key is k
ReferrersOf(k) ==
  {u \in {nodes[n].url : n \in 1..Len(nodes)} :
     SucceededInternal(u) /\ k \in LinkKeysOf(u)}

\* C16: when the loop has ended, the referrers of every node of the registry
\* are the urls of the successfully fetched internal pages with an anchor
\* whose key is the node's url, each once.
C16_ReferrersExact ==
  pc \in {"write", "done"} =>
    \A k \in DOMAIN allNodes :
      LET refs == nodes[allNodes[k]].refs
      IN /\ Range(refs) = ReferrersOf(k)
         /\ Len(refs) = Cardinality(ReferrersOf(k))

\* C16 witness: the run is done and a node has exactly two referrers, two
\* different pages that both link to it, while a page that failed and a
\* page without a link to it are not among them.
C16_Witness ==
  /\ pc = "done"
  /\ errorNodes # <<>>
  /\ \E k \in DOMAIN allNodes :
       /\ Len(nodes[allNodes[k]].refs) = 2
       /\ Cardinality(ReferrersOf(k)) = 2
       /\ k \notin ReferrersOf(k)
       /\ \E n \in Range(finishedOurNodes) : nodes[n].url \notin ReferrersOf(k)

\* C17: the browser is closed at most once; no node is handed to checkPage
\* and no page is navigated to once it is closed; the sitemap is written
\* only after it is closed; and when the run has ended, also by an error
\* while a node was processed, the browser is closed exactly once.
C17_ReleasedOnce ==
  [][/\ closeCount' <= 1
     /\ ~browserOpen => visited' = visited /\ site' = site
     /\ files' # files => closeCount = 1 /\ ~browserOpen
     /\ pc' \in {"done", "aborted"} => closeCount' = 1 /\ ~browserOpen'
    ]_vars

\* C18: a node outside the frontier never enters it, so a node leaves the
\* frontier at most once and is handed to checkPage at most once; a finished
\* node stays finished, an errored node stays errored, no node is both, and
\* no key leaves the registry.
C18_MonotonicTransitions ==
  [][/\ \A n \in 1..Len(nodes) :
          /\ ~IsPending(n) => n \notin Range(targetNodes')
          /\ IsFinished(n) => n \in Range(finishedOurNodes')
          /\ IsErrored(n) => n \in Range(errorNodes')
     /\ \A n \in 1..Len(nodes') :
          ~(n \in Range(finishedOurNodes') /\ n \in Range(errorNodes'))
     /\ \A i, j \in 1..Len(visited') : visited'[i] = visited'[j] => i = j
     /\ Len(nodes') >= Len(nodes)
     /\ DOMAIN allNodes \subseteq DOMAIN allNodes'
    ]_vars

\* C18 witness: a node that had left the frontier and was finished or
\* errored was linked again by a page processed after it, and nodes still
\* wait.
C18_Witness ==
  /\ targetNodes # <<>>
  /\ \E i, k \in 1..Len(visited) :
       /\ i < k
       /\ IsFinished(visited[i]) \/ IsErrored(visited[i])
       /\ IsFinished(visited[k])
       /\ VisitedUrls[i] \in LinkKeysOf(VisitedUrls[k])

\* The page of url u failed: the navigation threw or answered a status
\* outside [200, 400)
FetchFailed(u) ==
  /\ FetchTargetOf(u) \in DOMAIN site
  /\ site[FetchTargetOf(u)].outcome # "ok"

\* C19: a node has an error exactly when it is in the errored set, which is
\* exactly when it was handed to checkPage and its fetch failed; a node has
\* a title only if it was handed to checkPage and its fetch succeeded, so
\* pending nodes, skipped external nodes and errored nodes have none.
C19_ErrorAndTitle ==
  \A n \in 1..Len(nodes) :
    LET u == nodes[n].url
    IN /\ nodes[n].error # Undefined <=> IsErrored(n)
       /\ IsErrored(n) <=> (n \in Range(visited) /\ FetchFailed(u))
       /\ nodes[n].title # "" =>
            n \in Range(visited) /\ FetchedOk(FetchTargetOf(u))
       /\ IsPending(n) => nodes[n].title = ""
       /\ IsErrored(n) => nodes[n].title = ""
       /\ (n \in Range(visited) /\ FetchTargetOf(u) \notin DOMAIN site) =>
            nodes[n].title = ""

\* C19 witness: there are an errored node, a skipped external node, a
\* pending node and a node with a title, while a page that was fetched
\* successfully and a page that failed are known.
C19_Witness ==
  /\ \E n \in Range(errorNodes) : nodes[n].error # Undefined
  /\ \E n \in Range(visited) : FetchTargetOf(nodes[n].url) \notin DOMAIN site
  /\ targetNodes # <<>>
  /\ \E n \in 1..Len(nodes) : nodes[n].title # ""

\* C20: the emitted sitemap holds no location twice.  (A seed list naming a
\* url twice breaks it, as it breaks C4: both Nodes of the url are finished
\* and writeSitemap emits an entry for each.)
C20_NoDuplicateLocations ==
  \A i, j \in 1..Len(Emitted) : Emitted[i] = Emitted[j] => i = j

====
